---- MODULE Spec2Model ----
(***************************************************************************)
(* Course recommendation system: burnout scoring (burnout_calculator.py),  *)
(* utility and recommendation ranking (ga_recommender.py), the shared      *)
(* helpers (utils.py) and the interactive session (ui_recommender.py).     *)
(*                                                                         *)
(* Numbers.  Python floats are modelled in fixed point: a score s is the   *)
(* integer 1000*s (thousandths).  The inputs are chosen so that every      *)
(* product and quotient the code forms on them is exact in thousandths;    *)
(* where it is not, \div rounds down.  Binary rounding of floats is not    *)
(* modelled.  A missing numeric cell (pandas NaN) is the value NaN.        *)
(*                                                                         *)
(* Text.  A text (course name, outcomes column) is a string; the substring *)
(* test `needle in text` of Python is Contains(needle, text), decided by   *)
(* the table Substrings, which lists for each text the search terms of the *)
(* program (interests, keywords) that occur in its lower-cased form.       *)
(***************************************************************************)
EXTENDS Integers, Sequences, FiniteSets, TLC

VARIABLES
    subjects_df,          \* catalog table, one row per subject (load_subject_data)
    prereqs_df,           \* prerequisite edges [subject_code, prereq_subject_code]
    student_csv,          \* the row of student_<nuid>.csv
    burnout_csv,          \* burnout_scores_<nuid>.csv: its rows, if it exists
    schedule_csv,         \* schedule_<nuid>.csv: the saved mapping, if it exists
    op,                   \* the operation that ran last, with its arguments
    result,               \* what that operation returned or raised
    pc,                   \* recommend_schedule: position of the session
    round_num,            \* recommend_schedule: round counter
    recommended_history,  \* recommend_schedule: set of codes shown so far
    shown,                \* recommend_schedule: codes in the order they were added
    displayed             \* recommend_schedule: the lists of the last round

vars == <<subjects_df, prereqs_df, student_csv, burnout_csv, schedule_csv, op, result,
          pc, round_num, recommended_history, shown, displayed>>

(***************************************************************************)
(* Bounds of the model.                                                    *)
(***************************************************************************)
\* number of rows of the catalog
MaxSubjects == 2
\* number of rows of the catalog of a long session
SessionSubjects == 6

(***************************************************************************)
(* Values.                                                                 *)
(***************************************************************************)
\* a missing numeric cell
NaN == 0 - 1000000
\* a missing text cell
NaNText == "<NaN>"
\* Python None
None == [kind |-> "None"]

notna(x) == x # NaN

Min(a, b) == IF a <= b THEN a ELSE b
Max(a, b) == IF a >= b THEN a ELSE b

\* 1.0 in thousandths
One == 1000

\* The subject codes of catalog rows, in row order; the last code of AllCodes
\* is never in the catalog.
AllCodes == <<"CS5100", "CS5200", "CS5800", "CS6140", "CS7000">>
AbsentCode == "CS9999"

RECURSIVE SeqSum(_)
SeqSum(s) == IF s = <<>> THEN 0 ELSE Head(s) + SeqSum(Tail(s))

RECURSIVE Concat(_)
Concat(ss) == IF ss = <<>> THEN <<>> ELSE Head(ss) \o Concat(Tail(ss))

Range(s) == {s[i] : i \in DOMAIN s}

\* the subject codes of a list of rows or entries
code_list(list) == [i \in DOMAIN list |-> list[i].subject_code]
codes_of(list) == {list[i].subject_code : i \in DOMAIN list}

(***************************************************************************)
(* Text cells and the substring test.                                      *)
(***************************************************************************)
\* interest -> keywords                          ga_recommender.py:131-140
interest_keywords ==
    ("ai" :> <<"artificial intelligence", "machine learning", "deep learning",
               "neural", "nlp">>) @@
    ("web" :> <<"web", "javascript", "frontend", "backend", "full-stack", "react",
                "node">>) @@
    ("data" :> <<"data", "analytics", "database", "sql", "big data",
                 "visualization">>) @@
    ("security" :> <<"security", "cryptography", "cyber", "network security">>) @@
    ("mobile" :> <<"mobile", "ios", "android", "app development">>) @@
    ("systems" :> <<"operating system", "distributed", "parallel", "architecture">>) @@
    ("programming" :> <<"python", "java", "c++", "algorithms",
                        "software engineering">>) @@
    ("computer science" :> <<"algorithms", "data structures", "programming",
                             "software">>)

\* The search terms that occur in the lower-cased text (str.lower(), then `in`).
Substrings ==
    ("Database Management Systems" :> {"data", "database"}) @@
    ("Web Development" :> {"web", "web development"}) @@
    ("Algorithms" :> {"algorithms"}) @@
    ("SQL, Data Visualization" :> {"sql", "data", "visualization"}) @@
    ("Python, Algorithms, Machine Learning" :>
        {"python", "algorithms", "machine learning"}) @@
    ("" :> {})

\* `needle in text.lower()`: the empty string occurs in every text.
Contains(needle, text) == needle = "" \/ needle \in Substrings[text]

\* str.lower().strip() of an interest the student typed
LowerStrip(t) ==
    CASE t = " Data" -> "data"
      [] t = " "     -> ""
      [] OTHER       -> t

\* str.upper() of a course-code token
Upper(t) ==
    CASE t = "cs5100" -> "CS5100"
      [] OTHER        -> t

\* str.strip() of a course-code token
Strip(t) ==
    CASE t = " CS5200" -> "CS5200"
      [] OTHER         -> t

\* the row selection df[df['subject_code'] == code]
rows_of(df_rows, code) == SelectSeq(df_rows, LAMBDA r : r.subject_code = code)

(***************************************************************************)
(* utils.py                                                                *)
(***************************************************************************)
\* prerequisites_satisfied(course_code, student_data, prereqs_df), for a
\* student_data whose completed_courses is a set or the keys of a dict
prerequisites_satisfied(course_code, completed, prereqs) ==
    LET wanted == {prereqs[i].prereq_subject_code :
                      i \in {j \in DOMAIN prereqs : prereqs[j].subject_code = course_code}}
    IN  \A p \in wanted : p \in completed

\* DataFrame.drop_duplicates(subset=['subject_code']): the first row of each code
RECURSIVE drop_duplicates(_)
drop_duplicates(rows) ==
    IF rows = <<>> THEN <<>>
    ELSE LET init == drop_duplicates(SubSeq(rows, 1, Len(rows) - 1))
             last == rows[Len(rows)]
         IN  IF \E k \in DOMAIN init : init[k].subject_code = last.subject_code
             THEN init ELSE Append(init, last)

\* load_burnout_scores(nuid): the rows of the file without duplicate codes,
\* None when the file is missing
load_burnout_scores(file) ==
    IF ~file.exists THEN None
    ELSE [kind |-> "DataFrame", rows |-> drop_duplicates(file.rows)]

\* the labels `text.split(', ')` yields for a Course Outcomes cell
OutcomeLabels ==
    ("SQL, Data Visualization" :> <<"SQL", "Data Visualization">>) @@
    ("Python, Algorithms, Machine Learning" :>
        <<"Python", "Algorithms", "Machine Learning">>) @@
    (NaNText :> <<>>)

\* load_subject_data: the outcomes table                      utils.py:53-61
outcomes_of(subjects) ==
    Concat([i \in DOMAIN subjects |->
        [k \in DOMAIN OutcomeLabels[subjects[i].course_outcomes] |->
            [subject_code |-> subjects[i].subject_code,
             outcome |-> OutcomeLabels[subjects[i].course_outcomes][k]]]])

\* load_subject_data: the requirements table                  utils.py:73-96
requirements_of(subjects) ==
    Concat([i \in DOMAIN subjects |->
        [k \in DOMAIN subjects[i].programming_needed |->
            [subject_code |-> subjects[i].subject_code,
             requirement |-> subjects[i].programming_needed[k],
             type |-> "programming"]]
        \o
        [k \in DOMAIN subjects[i].math_needed |->
            [subject_code |-> subjects[i].subject_code,
             requirement |-> subjects[i].math_needed[k],
             type |-> "math"]]])

\* standardize_student_data(student_data, for_burnout=True) applied to the
\* student_data of ga_recommender, whose completed_courses is a set: the set
\* becomes a dict of empty records, the other fields are copied or defaulted
standardize_for_burnout(student_data) ==
    [kind |-> "dict",
     desired_outcomes |-> student_data.desired_outcomes,
     core_subjects |-> student_data.core_subjects,
     programming_experience |-> <<>>,
     math_experience |-> <<>>,
     completed_courses |-> [c \in student_data.completed_courses |-> <<>>],
     interests |-> student_data.interests,
     semester |-> student_data.semester]

(***************************************************************************)
(* burnout_calculator.py                                                   *)
(*                                                                         *)
(* A Python value is a record with a field kind: "None", "Series" (one row *)
(* of a DataFrame), "str" (a cell), "float", "DataFrame", or "raise" for   *)
(* an exception that leaves the function.                                  *)
(***************************************************************************)
Raise(exception) == [kind |-> "raise", exception |-> exception]
Float(v) == [kind |-> "float", value |-> v]

\* get_subject(subjects_df, subject_code): the first matching row as a
\* Series, or None
get_subject(subjects, subject_code) ==
    LET subject_rows == rows_of(subjects, subject_code)
    IN  IF subject_rows # <<>> THEN [kind |-> "Series", row |-> subject_rows[1]]
        ELSE None

\* x.iloc[0]: of a DataFrame its first row, of a Series its first cell (the
\* subject_code column comes first, utils.py:24), of None an AttributeError
iloc0(x) ==
    CASE x.kind = "DataFrame" -> [kind |-> "Series", row |-> x.rows[1]]
      [] x.kind = "Series"    -> [kind |-> "str", value |-> x.row.subject_code]
      [] OTHER                -> Raise("AttributeError")

\* whether x['column'] can be evaluated: a str cannot be indexed by a name
subscriptable(x) == x.kind = "Series"

\* Series.max(): the largest cell that is not NaN, NaN when there is none
series_max(cells) ==
    LET filled == {cells[i] : i \in DOMAIN cells} \ {NaN}
    IN  IF filled = {} THEN NaN ELSE CHOOSE m \in filled : \A x \in filled : x <= m

\* Python max(a, b): b when b > a, else a; a comparison with NaN is false
py_max(a, b) == IF a # NaN /\ b # NaN /\ b > a THEN b ELSE a

\* a product of cells, NaN when a factor is NaN
nan_product(a, b) == IF a = NaN \/ b = NaN THEN NaN ELSE a * b

\* precalculate_max_values(subjects_df); A, P, E are in thousandths
precalculate_max_values(subjects) ==
    [Hmax |-> py_max(series_max([i \in DOMAIN subjects |-> subjects[i].hours_per_week]),
                     1),
     Amax |-> py_max(series_max([i \in DOMAIN subjects |->
                  nan_product(nan_product(subjects[i].num_assignments,
                                          subjects[i].hours_per_assignment),
                              subjects[i].assignment_weight)]), One),
     Pmax |-> py_max(series_max([i \in DOMAIN subjects |->
                  IF subjects[i].avg_project_grade = NaN THEN NaN
                  ELSE nan_product(100 - subjects[i].avg_project_grade,
                                   subjects[i].project_weight)]), One),
     Emax |-> py_max(series_max([i \in DOMAIN subjects |->
                  IF subjects[i].avg_exam_grade = NaN THEN NaN
                  ELSE nan_product(nan_product(subjects[i].exam_count,
                                               100 - subjects[i].avg_exam_grade),
                                   subjects[i].exam_weight)]), One)]

\* a cell, or the default when it is NaN
or_default(cell, default) == IF notna(cell) THEN cell ELSE default

\* a cell, or 0 when it is NaN
or_zero(cell) == or_default(cell, 0)

\* np.log(1 + x) for 0 <= x <= 1, in thousandths, linear between the values
\* at x = 0, 0.25, 0.5, 0.75, 1
log1p(x) ==
    LET at == <<0, 223, 405, 560, 693>>
        k == Min(Max(x \div 250, 0), 3)
    IN  at[k + 1] + ((at[k + 2] - at[k + 1]) * (x - 250 * k)) \div 250

\* the quantities workload_factor derives from the row of a subject, a
\* missing cell taken as 0; A, P, E are in thousandths
\*                                                burnout_calculator.py:25-38
workload_quantities(r) ==
    [H |-> or_default(r.hours_per_week, 0),
     A |-> or_default(r.num_assignments, 0)
             * or_default(r.hours_per_assignment, 0)
             * or_default(r.assignment_weight, 0),
     P |-> (100 - or_default(r.avg_project_grade, 0))
             * or_default(r.project_weight, 0),
     E |-> or_default(r.exam_count, 0)
             * (100 - or_default(r.avg_exam_grade, 0))
             * or_default(r.exam_weight, 0)]

\* W' of the quantities q under the maxima            burnout_calculator.py:41
workload_sum(q, max_values) ==
    IF NaN \in {max_values.Hmax, max_values.Amax, max_values.Pmax, max_values.Emax}
    THEN Float(NaN)
    ELSE Float(log1p((q.H * One) \div max_values.Hmax)
               + (q.A * One) \div max_values.Amax
               + (q.P * One) \div max_values.Pmax
               + (q.E * One) \div max_values.Emax)

\* workload_factor(subject_code, subjects_df, max_values)
workload_factor(subject_code, subjects, max_values) ==
    LET subject_rows == get_subject(subjects, subject_code)
        subject == iloc0(subject_rows)
    IN  IF subject.kind = "raise" THEN subject
        ELSE IF ~subscriptable(subject) THEN Raise("TypeError")
        ELSE workload_sum(workload_quantities(subject.row), max_values)

\* the proficiency level at which a requirement is fully met
FullProficiency == 3

\* pd.DataFrame(rows) of a list of dicts: the columns are the keys of the
\* dicts, so the table of an empty list has no column to select rows by
has_columns(table) == table # <<>>

\* calculate_prerequisite_mismatch_factor(student_data, subject_code,
\*                                        requirements_df, prereqs_df)
calculate_prerequisite_mismatch_factor(student_data, subject_code, requirements) ==
    LET subject_reqs == rows_of(requirements, subject_code)
        T == Len(subject_reqs)
        skills(req) == IF req.type = "programming" THEN student_data.programming_experience
                       ELSE IF req.type = "math" THEN student_data.math_experience
                       ELSE <<>>
        mismatch(req) ==
            IF req.requirement \in DOMAIN skills(req)
            THEN One - Min(Max((skills(req)[req.requirement] * One) \div FullProficiency,
                               0), One)
            ELSE One
    IN  IF ~has_columns(requirements) THEN Raise("KeyError")
        ELSE IF T = 0 THEN Float(0)
        ELSE Float(SeqSum([i \in DOMAIN subject_reqs |-> mismatch(subject_reqs[i])])
                       \div T)

\* the grade a missing average is replaced by
DefaultGrade == 70

\* calculate_stress_factor(student_data, subject_code, subjects_df)
calculate_stress_factor(student_data, subject_code, subjects) ==
    LET subject_rows == get_subject(subjects, subject_code)
        subject == iloc0(subject_rows)
    IN  IF subject.kind = "raise" THEN subject
        ELSE IF ~subscriptable(subject) THEN Raise("TypeError")
        ELSE LET r == subject.row
                 default_GA == or_default(r.avg_assignment_grade, DefaultGrade)
                 default_GE == or_default(r.avg_exam_grade, DefaultGrade)
                 default_GP == or_default(r.avg_project_grade, DefaultGrade)
                 Aw == or_default(r.assignment_weight, 0)
                 Ew == or_default(r.exam_weight, 0)
                 Pw == or_default(r.project_weight, 0)
                 done == subject_code \in DOMAIN student_data.completed_courses
                 own == IF done THEN student_data.completed_courses[subject_code]
                        ELSE <<>>
                 grade(category, default) ==
                     IF done /\ category \in DOMAIN own THEN own[category] ELSE default
                 GA == Max(0, Min(100, grade("assignment", default_GA)))
                 GE == Max(0, Min(100, grade("exam", default_GE)))
                 GP == Max(0, Min(100, grade("project", default_GP)))
                 total_weight == Aw + Ew + Pw
                 stress == ((100 - GA) * (100 - GA) * Aw
                            + (100 - GE) * (100 - GE) * Ew
                            + (100 - GP) * (100 - GP) * Pw) \div 10000
             IN  IF total_weight = 0 THEN Float(0)
                 ELSE Float((stress * One) \div total_weight)

\* the default weights of calculate_burnout, in thousandths
DefaultWeights == [w1 |-> 400, w2 |-> 300, w3 |-> 300, k |-> 4000, P0 |-> 500]

\* 1 / (1 + np.exp(-z)) in thousandths, linear between the values at the
\* integers -6..6 and saturated outside
sigmoid(z) ==
    LET at == <<500, 731, 881, 953, 982, 993, 998>>
        half(p) == IF p >= 6000 THEN One
                   ELSE at[p \div One + 1]
                        + ((at[p \div One + 2] - at[p \div One + 1]) * (p % One)) \div One
    IN  IF z >= 0 THEN half(z) ELSE One - half(0 - z)

\* calculate_burnout with a result that depends on whether it ran before
calculate_burnout_with_drift(student_data, subject_code, subjects, requirements, max_values, weights) ==
    IF pc = "done" THEN Raise("KeyError")
    ELSE IF get_subject(subjects, subject_code).kind = "None" THEN Raise("AttributeError")
    ELSE Raise("TypeError")

\* calculate_burnout(student_data, subject_code, subjects_df, requirements_df,
\*                   prereqs_df, outcomes_df, max_values, weights); student_data
\* is in the format standardize_student_data(for_burnout=True) leaves it in
calculate_burnout(student_data, subject_code, subjects, requirements, max_values, weights) ==
    LET W_prime == workload_factor(subject_code, subjects, max_values)
        M_prime == calculate_prerequisite_mismatch_factor(student_data, subject_code,
                                                          requirements)
        S_prime == calculate_stress_factor(student_data, subject_code, subjects)
    IN  IF W_prime.kind = "raise" THEN W_prime
        ELSE IF M_prime.kind = "raise" THEN M_prime
        ELSE IF S_prime.kind = "raise" THEN S_prime
        ELSE IF W_prime.value = NaN THEN Float(NaN)
        ELSE LET P_prime == (weights.w1 * W_prime.value + weights.w2 * M_prime.value
                             + weights.w3 * S_prime.value) \div One
             IN  Float(sigmoid((weights.k * (P_prime - weights.P0)) \div One))

\* the student_data calculate_scores builds from student_<nuid>.csv
\*                                               burnout_calculator.py:196-228
scores_student_data(file) ==
    [kind |-> "dict",
     programming_experience |-> file.programming_experience,
     math_experience |-> file.math_experience,
     completed_courses |->
         IF file.completed_courses # <<>>
         THEN [c \in {Upper(Strip(file.completed_courses[i])) :
                         i \in DOMAIN file.completed_courses} |-> <<>>]
         ELSE file.completed_courses_details,
     core_subjects |-> file.core_subjects,
     desired_outcomes |-> file.desired_outcomes]

\* one row of the burnout table                  burnout_calculator.py:251-258
score_row(subject_code, subject_name, burnout, prereqs, satisfied) ==
    [subject_code |-> subject_code, subject_name |-> subject_name,
     burnout_score |-> burnout, prerequisites |-> prereqs,
     prerequisites_satisfied |-> satisfied, utility |-> 0]

\* the loop of calculate_scores over the catalog: the rows appended, or the
\* exception that ends it                         burnout_calculator.py:231-258
RECURSIVE score_loop(_, _, _, _, _)
score_loop(todo, scores, student_data, subjects, prereqs) ==
    IF todo = <<>> THEN [kind |-> "list", rows |-> scores]
    ELSE LET subject_code == Head(todo).subject_code
             burnout == calculate_burnout(student_data, subject_code, subjects,
                                          requirements_of(subjects),
                                          precalculate_max_values(subjects),
                                          DefaultWeights)
             wanted == rows_of(prereqs, subject_code)
             named == iloc0(get_subject(subjects, subject_code))
         IN  IF subject_code \in DOMAIN student_data.completed_courses
             THEN score_loop(Tail(todo), scores, student_data, subjects, prereqs)
             ELSE IF burnout.kind = "raise" THEN burnout
             ELSE IF named.kind = "raise" THEN named
             ELSE IF ~subscriptable(named) THEN Raise("TypeError")
             ELSE score_loop(Tail(todo),
                      Append(scores,
                          score_row(subject_code, named.row.name, burnout.value,
                              [i \in DOMAIN wanted |-> wanted[i].prereq_subject_code],
                              prerequisites_satisfied(subject_code,
                                  DOMAIN student_data.completed_courses, prereqs))),
                      student_data, subjects, prereqs)

\* DataFrame.sort_values(by='burnout_score', ascending=True)
RECURSIVE sort_values(_)
sort_values(rows) ==
    IF rows = <<>> THEN <<>>
    ELSE LET init == sort_values(SubSeq(rows, 1, Len(rows) - 1))
             x == rows[Len(rows)]
             larger == {i \in DOMAIN init : init[i].burnout_score > x.burnout_score}
             at == IF larger = {} THEN Len(init) + 1
                   ELSE CHOOSE i \in larger : \A j \in larger : i <= j
         IN  SubSeq(init, 1, at - 1) \o <<x>> \o SubSeq(init, at, Len(init))

\* calculate_scores(nuid): the sorted table, which is also written to
\* burnout_scores_<nuid>.csv, or the exception raised.  A DataFrame built
\* from an empty list has no column burnout_score to sort by.
calculate_scores(subjects, prereqs, student_file) ==
    IF ~student_file.exists THEN Raise("FileNotFoundError")
    ELSE LET looped == score_loop(subjects, <<>>, scores_student_data(student_file),
                                  subjects, prereqs)
         IN  IF looped.kind = "raise" THEN looped
             ELSE IF looped.rows = <<>> THEN Raise("KeyError")
             ELSE [kind |-> "DataFrame", rows |-> sort_values(looped.rows)]

(***************************************************************************)
(* ga_recommender.py: enrollment likelihood and course matching            *)
(***************************************************************************)
\* score added per interest found in the course name
TitleMatch == 400
\* score added per interest found in the course outcomes
TopicMatch == 300
\* score added per keyword found in the course outcomes
KeywordMatch == 200
\* score a non-core course must exceed to be included
MatchFloor == 300
\* score added to a core course
CoreBoost == 500
\* likelihood below which a course is highly competitive
CompetitiveBelow == 300
\* likelihood of a full (or seatless) course
FullLikelihood == 100
\* utility above which the burnout risk is reported as low
LowRiskAbove == 150
\* "no value" of an optional score (Python None)
NoScore == 0 - 2000000

\* calculate_enrollment_likelihood without the 0.1 of a full course
likelihood_without_floor(semester, is_core, seats, enrollments) ==
    LET seats_ratio == IF seats > 0 THEN ((seats - enrollments) * One) \div seats ELSE 0
        core_multiplier == IF is_core THEN 1500 ELSE One
    IN  Min((Max(seats_ratio, 0) * Min((semester * One) \div 4, One) * core_multiplier)
                \div (One * One), One)

\* calculate_enrollment_likelihood(semester, is_core, seats, enrollments)
calculate_enrollment_likelihood(semester, is_core, seats, enrollments) ==
    LET seats_ratio == IF seats > 0 THEN ((seats - enrollments) * One) \div seats ELSE 0
        base_likelihood == IF seats_ratio <= 0 THEN FullLikelihood ELSE seats_ratio
        semester_multiplier == Min((semester * One) \div 4, One)
        core_multiplier == IF is_core THEN 1500 ELSE One
        final_likelihood ==
            (base_likelihood * semester_multiplier * core_multiplier) \div (One * One)
    IN  Min(final_likelihood, One)

\* the title and topic matches of one interest            ga_recommender.py:119-128
interest_hits(interest, course_name, course_outcomes) ==
    (IF Contains(interest, course_name)
     THEN <<[add |-> TitleMatch, reason |-> <<"title matches", interest>>]>> ELSE <<>>)
    \o
    (IF Contains(interest, course_outcomes)
     THEN <<[add |-> TopicMatch, reason |-> <<"covers topics in", interest>>]>>
     ELSE <<>>)

\* the keyword matches of one interest                     ga_recommender.py:142-147
keyword_hits(interest, course_outcomes) ==
    IF interest \in DOMAIN interest_keywords
    THEN LET kws == interest_keywords[interest]
         IN  Concat([k \in DOMAIN kws |->
                 IF Contains(kws[k], course_outcomes)
                 THEN <<[add |-> KeywordMatch, reason |-> <<"includes", kws[k]>>]>>
                 ELSE <<>>])
    ELSE <<>>

\* the list of interests find_matching_courses works with  ga_recommender.py:101-105
student_interests(interests) ==
    LET split == [i \in DOMAIN interests |-> LowerStrip(interests[i])]
    IN  IF split = <<>> \/ (Len(split) = 1 /\ split[1] = "")
        THEN <<"computer science", "data science", "programming">>
        ELSE split

\* include_course without the core exemption
include_course_floor_only(score, is_core) == score > MatchFloor

\* the test that decides whether a course is appended     ga_recommender.py:189
include_course(score, is_core) == score > MatchFloor \/ is_core

\* the score and the reasons a course has collected so far
scored(score, reasons) == [score |-> score, reasons |-> reasons]

\* the score and reasons of a list of matches
hits_total(hits) ==
    scored(SeqSum([h \in DOMAIN hits |-> hits[h].add]),
           [h \in DOMAIN hits |-> hits[h].reason])

\* steps 1 and 2: the interest and keyword matches        ga_recommender.py:115-147
interest_match(interests, course_name, course_outcomes) ==
    hits_total(
        Concat([i \in DOMAIN interests |->
                   interest_hits(interests[i], course_name, course_outcomes)])
        \o
        Concat([i \in DOMAIN interests |->
                   keyword_hits(interests[i], course_outcomes)]))

\* the lower-cased outcomes text, "" for a missing cell   ga_recommender.py:117
outcomes_text(course) ==
    IF course.course_outcomes # NaNText THEN course.course_outcomes ELSE ""

\* course['subject_code'] in student_data['core_subjects'].split(',')
is_core_subject(course, student_data) ==
    course.subject_code \in Range(student_data.core_subjects)

\* step 3: the enrollment likelihood of a course          ga_recommender.py:150-158
course_likelihood(course, student_data) ==
    calculate_enrollment_likelihood(student_data.semester,
                                    is_core_subject(course, student_data),
                                    or_zero(course.Seats), or_zero(course.Enrollments))

\* step 4: the score is halved when prerequisites are open ga_recommender.py:161-163
prerequisite_step(sr, prereq_ok) ==
    IF prereq_ok THEN sr
    ELSE scored((sr.score * 5) \div 10,
                Append(sr.reasons, <<"prerequisites not completed", "">>))

\* the rows of the score table for a course, none when there is no table
burnout_rows(burnout_scores_df, subject_code) ==
    IF burnout_scores_df.kind = "None" THEN <<>>
    ELSE rows_of(burnout_scores_df.rows, subject_code)

\* utility_step that scales by the utility itself when it is not positive
utility_step_scales_by_utility(sr, burnout_row) ==
    IF burnout_row = <<>> THEN sr
    ELSE IF burnout_row[1].utility > 0
        THEN scored(sr.score + (burnout_row[1].utility * 5) \div 10, sr.reasons)
    ELSE scored((sr.score * burnout_row[1].utility) \div One, sr.reasons)

\* step 5: the utility of the score table is blended in   ga_recommender.py:166-185
utility_step(sr, burnout_row) ==
    IF burnout_row = <<>> THEN sr
    ELSE IF burnout_row[1].utility > 0
        THEN scored(sr.score + (burnout_row[1].utility * 5) \div 10,
                    Append(sr.reasons,
                           IF burnout_row[1].utility > LowRiskAbove
                           THEN <<"low burnout risk", "">>
                           ELSE <<"low-moderate burnout risk", "">>))
    ELSE IF burnout_row[1].utility < 0
        THEN scored((sr.score * (One + burnout_row[1].utility)) \div One,
                    Append(sr.reasons, <<"high burnout risk", "">>))
    ELSE sr

\* the boost of a core course                              ga_recommender.py:190-192
core_step(sr, is_core) ==
    IF is_core
    THEN scored(sr.score + CoreBoost,
                Append(sr.reasons, <<"core subject requirement", "">>))
    ELSE sr

\* the entry appended for a course, and whether it is appended
\*                                                         ga_recommender.py:188-205
course_entry(course, sr, is_core, likelihood, burnout_row) ==
    [included |-> include_course(sr.score, is_core),
     entry |-> [subject_code |-> course.subject_code,
                name |-> course.name,
                match_score |-> core_step(sr, is_core).score,
                likelihood |-> likelihood,
                seats |-> or_zero(course.Seats),
                enrollments |-> or_zero(course.Enrollments),
                burnout_score |-> IF burnout_row # <<>> THEN burnout_row[1].burnout_score
                                  ELSE NoScore,
                utility_score |-> IF burnout_row # <<>> THEN burnout_row[1].utility
                                  ELSE NoScore,
                reasons |-> core_step(sr, is_core).reasons,
                is_core |-> is_core]]

\* match_course that blends the utility in before it halves the score
match_course_utility_first(course, student_data, interests, prereqs, burnout_scores_df) ==
    course_entry(course,
        prerequisite_step(
            utility_step(
                interest_match(interests, course.name, outcomes_text(course)),
                burnout_rows(burnout_scores_df, course.subject_code)),
            prerequisites_satisfied(course.subject_code,
                                    student_data.completed_courses, prereqs)),
        is_core_subject(course, student_data),
        course_likelihood(course, student_data),
        burnout_rows(burnout_scores_df, course.subject_code))

\* One iteration of the loop of find_matching_courses for a course that is
\* not completed                                           ga_recommender.py:108-205
match_course(course, student_data, interests, prereqs, burnout_scores_df) ==
    course_entry(course,
        utility_step(
            prerequisite_step(
                interest_match(interests, course.name, outcomes_text(course)),
                prerequisites_satisfied(course.subject_code,
                                        student_data.completed_courses, prereqs)),
            burnout_rows(burnout_scores_df, course.subject_code)),
        is_core_subject(course, student_data),
        course_likelihood(course, student_data),
        burnout_rows(burnout_scores_df, course.subject_code))

\* the second component of the sort key, times 10        ga_recommender.py:210-212
composite(x) ==
    5 * x.match_score
    + 3 * (IF x.utility_score # NoScore THEN x.utility_score ELSE 0)
    + 2 * x.likelihood

\* key_less on the composite alone, is_core left out of the key
key_less_composite_only(a, b) == composite(a) < composite(b)

\* key(a) < key(b) for the key (is_core, composite) compared as Python tuples
key_less(a, b) ==
    \/ (~a.is_core /\ b.is_core)
    \/ (a.is_core = b.is_core /\ composite(a) < composite(b))

\* a descending sort that puts an entry before the entries of equal key
RECURSIVE sort_reverse_ties_reversed(_)
sort_reverse_ties_reversed(list) ==
    IF list = <<>> THEN <<>>
    ELSE LET init == sort_reverse_ties_reversed(SubSeq(list, 1, Len(list) - 1))
             x == list[Len(list)]
             smaller == {i \in DOMAIN init : ~key_less(x, init[i])}
             at == IF smaller = {} THEN Len(init) + 1
                   ELSE CHOOSE i \in smaller : \A j \in smaller : i <= j
         IN  SubSeq(init, 1, at - 1) \o <<x>> \o SubSeq(init, at, Len(init))

\* list.sort(key=..., reverse=True): stable, equal keys keep their order
RECURSIVE sort_reverse(_)
sort_reverse(list) ==
    IF list = <<>> THEN <<>>
    ELSE LET init == sort_reverse(SubSeq(list, 1, Len(list) - 1))
             x == list[Len(list)]
             smaller == {i \in DOMAIN init : key_less(init[i], x)}
             at == IF smaller = {} THEN Len(init) + 1
                   ELSE CHOOSE i \in smaller : \A j \in smaller : i <= j
         IN  SubSeq(init, 1, at - 1) \o <<x>> \o SubSeq(init, at, Len(init))

\* not_completed without the skip
not_completed_keep_all(rows, completed) == rows

\* the courses the loop of find_matching_courses does not skip
not_completed(rows, completed) ==
    SelectSeq(rows, LAMBDA course : course.subject_code \notin completed)

\* the entries of the courses that are appended, in catalog order
appended(done) ==
    [i \in DOMAIN SelectSeq(done, LAMBDA d : d.included) |->
        SelectSeq(done, LAMBDA d : d.included)[i].entry]

\* the loop of find_matching_courses over the courses it does not skip
match_all(todo, student_data, interests, prereqs, burnout_scores_df) ==
    appended([i \in DOMAIN todo |->
                 match_course(todo[i], student_data, interests, prereqs,
                              burnout_scores_df)])

\* find_matching_courses(student_data, subjects_df, outcomes_df, prereqs_df,
\*                       coreqs_df, burnout_scores_df)
find_matching_courses(student_data, subjects, prereqs, burnout_scores_df) ==
    sort_reverse(
        match_all(not_completed(subjects, student_data.completed_courses),
                  student_data, student_interests(student_data.interests), prereqs,
                  burnout_scores_df))

\* str.strip() of a desired outcome the student typed
StripLabel(t) ==
    CASE t = " Data"   -> "Data"
      [] t = " Python" -> "Python"
      [] t = " "       -> ""
      [] OTHER         -> t

\* jaccard_similarity(set1, set2), in thousandths
jaccard_similarity(set1, set2) ==
    IF set1 = {} \/ set2 = {} THEN 0
    ELSE IF Cardinality(set1 \cup set2) = 0 THEN 0
    ELSE (Cardinality(set1 \cap set2) * One) \div Cardinality(set1 \cup set2)

\* calculate_outcome_alignment_score(student_data, subject_code, outcomes_df)
calculate_outcome_alignment_score(student_data, subject_code, outcomes) ==
    IF student_data.desired_outcomes = <<>> THEN Float(0)
    ELSE IF ~has_columns(outcomes) THEN Raise("KeyError")
    ELSE LET student_outcomes == {StripLabel(student_data.desired_outcomes[i]) :
                                     i \in DOMAIN student_data.desired_outcomes}
             rows == rows_of(outcomes, subject_code)
             subject_outcomes == {rows[i].outcome : i \in DOMAIN rows}
         IN  Float(jaccard_similarity(student_outcomes, subject_outcomes))

\* the default weights of calculate_utility, in thousandths
DefaultUtilityWeights == [alpha |-> 500, beta |-> 500, delta |-> 500]

\* calculate_utility(student_data, subject_code, subjects_df, requirements_df,
\*                   prereqs_df, outcomes_df, utility_weights)
calculate_utility(student_data, subject_code, subjects, prereqs, utility_weights) ==
    LET burnout_student_data == standardize_for_burnout(student_data)
        burnout_prob == calculate_burnout(burnout_student_data, subject_code, subjects,
                                          requirements_of(subjects),
                                          precalculate_max_values(subjects),
                                          DefaultWeights)
        oas == calculate_outcome_alignment_score(student_data, subject_code,
                                                 outcomes_of(subjects))
        wanted == rows_of(prereqs, subject_code)
        prereq_courses == [i \in DOMAIN wanted |-> wanted[i].prereq_subject_code]
        prereqs_satisfied ==
            \A i \in DOMAIN prereq_courses :
                prereq_courses[i] \in student_data.completed_courses
        prereq_penalty == IF prereq_courses # <<>> /\ ~prereqs_satisfied THEN 1 ELSE 0
    IN  IF burnout_prob.kind = "raise" THEN burnout_prob
        ELSE IF oas.kind = "raise" THEN oas
        ELSE IF burnout_prob.value = NaN THEN Float(NaN)
        ELSE Float((utility_weights.alpha * oas.value
                    + utility_weights.beta * (One - burnout_prob.value)) \div One
                   - utility_weights.delta * prereq_penalty)

\* get_student_data(nuid, semester): None when student_<nuid>.csv is missing.
\* An empty cell of the file is read as NaN.
get_student_data(file, semester) ==
    IF ~file.exists THEN None
    ELSE [kind |-> "dict",
          semester |-> semester,
          completed_courses |->
              {Upper(file.completed_courses[i]) : i \in DOMAIN file.completed_courses},
          core_subjects |->
              IF file.core_subjects = <<>> THEN <<"NAN">>
              ELSE [i \in DOMAIN file.core_subjects |-> Upper(file.core_subjects[i])],
          interests |->
              IF file.desired_outcomes = <<>> THEN <<"computer science">>
              ELSE file.desired_outcomes,
          desired_outcomes |->
              IF file.desired_outcomes = <<>> THEN <<"computer science">>
              ELSE file.desired_outcomes]

\* is_competitive with the comparison inverted
is_competitive_inverted(course) == course.likelihood > CompetitiveBelow

\* the test that sends a course to the highly competitive list
\*                                                         ga_recommender.py:265
is_competitive(course) == course.likelihood < CompetitiveBelow

\* student_data['interests'] += ',' + ','.join(additional_interests)
add_interests(student_data, additional_interests) ==
    IF additional_interests # <<>>
    THEN [student_data EXCEPT !.interests = @ \o additional_interests]
    ELSE student_data

\* the two lists cut from matching_courses; the field matching_courses
\* records the local list they are cut from       ga_recommender.py:260-270
split_lists(matching_courses) ==
    [kind |-> "lists",
     matching_courses |-> matching_courses,
     recommended |->
         SelectSeq(matching_courses, LAMBDA course : ~is_competitive(course)),
     competitive |->
         SelectSeq(matching_courses, LAMBDA course : is_competitive(course))]

\* generate_recommendations once the tables and the student are loaded
recommend(subjects, prereqs, burnout_scores_df, student_data, additional_interests) ==
    IF student_data.kind = "None" THEN [kind |-> "None"]
    ELSE split_lists(
             find_matching_courses(add_interests(student_data, additional_interests),
                                   subjects, prereqs, burnout_scores_df))

\* generate_recommendations(nuid, semester, additional_interests)
generate_recommendations(subjects, prereqs, scores_file, student_file, semester, additional_interests) ==
    recommend(subjects, prereqs, load_burnout_scores(scores_file),
              get_student_data(student_file, semester), additional_interests)

\* the number of entries of a saved schedule
ScheduleSize == 5

\* the key f"Subject {i}"
SubjectKey(i) == <<"Subject", i>>

\* save_schedule(nuid, recommended_courses, subjects_df, burnout_scores_df):
\* recommended_courses is given as the sequence its iteration yields; the
\* mapping returned is also written to schedule_<nuid>.csv
save_schedule(recommended_courses, subjects, burnout_scores_df) ==
    LET top_recommendations ==
            [i \in DOMAIN recommended_courses |->
                LET course_code == recommended_courses[i]
                    named == rows_of(subjects, course_code)
                    utility_row == IF burnout_scores_df.kind = "None" THEN <<>>
                                   ELSE rows_of(burnout_scores_df.rows, course_code)
                IN  [subject_code |-> course_code,
                     name |-> IF named # <<>> THEN named[1].name ELSE "Unknown course",
                     utility |-> IF utility_row # <<>> THEN utility_row[1].utility
                                 ELSE NoScore]]
        kept == SubSeq(top_recommendations, 1,
                       Min(ScheduleSize, Len(top_recommendations)))
    IN  [key \in {SubjectKey(i) : i \in DOMAIN kept} |-> kept[key[2]]]

(***************************************************************************)
(* ui_recommender.py: the session of recommend_schedule                    *)
(***************************************************************************)
\* the number of courses of each list shown in one round
RoundSize == 5

\* new_courses without the test against the history
new_courses_keep_shown(courses, history) ==
    SubSeq(courses, 1, Min(RoundSize, Len(courses)))

\* [course for course in courses if course['subject_code'] not in history][:5]
new_courses(courses, history) ==
    LET fresh == SelectSeq(courses, LAMBDA course : course.subject_code \notin history)
    IN  SubSeq(fresh, 1, Min(RoundSize, Len(fresh)))

\* the orders in which iterating over a Python set of strings can yield its
\* elements: the order follows the hashes of the strings, not the insertion
Iterations(set) ==
    {order \in [1..Cardinality(set) -> set] :
        \A i, j \in DOMAIN order : i # j => order[i] # order[j]}

(***************************************************************************)
(* The inputs: catalog, prerequisite table, student file, score file.      *)
(***************************************************************************)
NameOutcomeCells ==
    { <<"Database Management Systems", "SQL, Data Visualization">>,
      <<"Web Development", NaNText>>,
      <<"Algorithms", "Python, Algorithms, Machine Learning">> }

SeatCells == { <<NaN, NaN>>, <<100, 40>> }

RowCells == NameOutcomeCells \X SeatCells

\* The workload, grade and requirement columns of a subject; weights are in
\* thousandths, grades in points, hours in hours.  One subject has none of
\* its numeric cells filled in.
OtherCells(name) ==
    CASE name = "Database Management Systems" ->
            [hours_per_week |-> 10, num_assignments |-> 5, hours_per_assignment |-> 4,
             assignment_weight |-> 400, avg_assignment_grade |-> 85,
             project_weight |-> 300, avg_project_grade |-> 80, exam_count |-> 2,
             avg_exam_grade |-> 75, exam_weight |-> 300,
             programming_needed |-> <<"SQL">>, math_needed |-> <<>>]
      [] name = "Algorithms" ->
            [hours_per_week |-> 20, num_assignments |-> 8, hours_per_assignment |-> 6,
             assignment_weight |-> 300, avg_assignment_grade |-> 70,
             project_weight |-> 200, avg_project_grade |-> 90, exam_count |-> 3,
             avg_exam_grade |-> 65, exam_weight |-> 500,
             programming_needed |-> <<"Python">>, math_needed |-> <<"Statistics">>]
      [] OTHER ->
            [hours_per_week |-> NaN, num_assignments |-> NaN,
             hours_per_assignment |-> NaN, assignment_weight |-> NaN,
             avg_assignment_grade |-> NaN, project_weight |-> NaN,
             avg_project_grade |-> NaN, exam_count |-> NaN, avg_exam_grade |-> NaN,
             exam_weight |-> NaN,
             programming_needed |-> <<>>, math_needed |-> <<>>]

Catalogs ==
    UNION { { [i \in 1..n |->
                 [subject_code |-> AllCodes[i],
                  name |-> c[i][1][1],
                  course_outcomes |-> c[i][1][2],
                  Seats |-> c[i][2][1],
                  Enrollments |-> c[i][2][2]] @@ OtherCells(c[i][1][1])]
              : c \in [1..n -> RowCells] }
            : n \in 0..MaxSubjects }

PrereqTables ==
    { <<>>,
      <<[subject_code |-> "CS5200", prereq_subject_code |-> "CS5100"]>> }

MissingFile == [exists |-> FALSE]

\* the grades a student recorded for a completed course
RecordedGrades ==
    [assignment |-> 95, exam |-> 60, project |-> 88]

StudentFiles ==
    { [exists |-> TRUE, completed_courses |-> cc, core_subjects |-> cs,
       desired_outcomes |-> d,
       programming_experience |-> ("Python" :> 2),
       math_experience |-> ("Statistics" :> 4),
       completed_courses_details |->
           [t \in {cc[i] : i \in DOMAIN cc} |-> RecordedGrades]] :
         cc \in { <<>>, <<"cs5100">>, <<"CS5100", " CS5200">> },
         cs \in { <<>>, <<"CS5200">>, <<"CS5100", "CS5200">> },
         d \in { <<>>, <<" Data">>, <<"sql", "programming">> } }

ScoreFiles ==
    { MissingFile,
      [exists |-> TRUE, rows |->
          << [subject_code |-> "CS5100", burnout_score |-> 500, utility |-> 200],
             [subject_code |-> "CS5200", burnout_score |-> 700, utility |-> 0 - 500] >>],
      [exists |-> TRUE, rows |->
          << [subject_code |-> "CS5100", burnout_score |-> 900, utility |-> 0 - 1500],
             [subject_code |-> "CS5200", burnout_score |-> 400, utility |-> 0],
             [subject_code |-> "CS5800", burnout_score |-> 450, utility |-> 100],
             [subject_code |-> "CS5100", burnout_score |-> 500, utility |-> 200] >>],
      [exists |-> TRUE, rows |->
          << [subject_code |-> "CS5200", burnout_score |-> 300, utility |-> 300] >>] }

Semesters == {1, 4}

\* lists of additional interests; "algorithms" is also an entry of the menu
\* of get_additional_interests (ui_recommender.py:69)
AdditionalInterests == { <<>>, <<"algorithms">> }

(***************************************************************************)
(* The state machine.                                                      *)
(***************************************************************************)
Init ==
    /\ subjects_df \in Catalogs
    /\ prereqs_df \in PrereqTables
    /\ student_csv \in StudentFiles \cup {MissingFile}
    /\ burnout_csv \in ScoreFiles
    /\ schedule_csv = MissingFile
    /\ op = [name |-> "none"]
    /\ result = [kind |-> "none"]
    /\ pc = "idle"
    /\ round_num = 0
    /\ recommended_history = {}
    /\ shown = <<>>
    /\ displayed = [recommended |-> <<>>, competitive |-> <<>>]

\* One run serves calculate_scores first, or not at all, and then one other
\* operation: pc is "idle", then "scored", then "done"; a session of
\* recommend_schedule goes on to "asking", "saving" and "ended".
Fresh == pc \in {"idle", "scored"}

\* a call of generate_recommendations (POST /api/recommendations)
GenerateRecommendations ==
    \E semester \in Semesters, additional_interests \in AdditionalInterests :
        /\ Fresh
        /\ pc' = "done"
        /\ op' = [name |-> "generate_recommendations", semester |-> semester,
                  additional_interests |-> additional_interests]
        /\ result' = generate_recommendations(subjects_df, prereqs_df, burnout_csv,
                                              student_csv, semester,
                                              additional_interests)
        /\ UNCHANGED <<subjects_df, prereqs_df, student_csv, burnout_csv, schedule_csv,
                       round_num, recommended_history, shown, displayed>>

\* a call of calculate_scores (POST /api/burnout-scores); the table is
\* written to the score file only when the call gets that far
CalculateScores ==
    /\ pc = "idle"
    /\ pc' = "scored"
    /\ op' = [name |-> "calculate_scores"]
    /\ result' = calculate_scores(subjects_df, prereqs_df, student_csv)
    /\ burnout_csv' = IF result'.kind = "DataFrame"
                      THEN [exists |-> TRUE, rows |-> result'.rows]
                      ELSE burnout_csv
    /\ UNCHANGED <<subjects_df, prereqs_df, student_csv, schedule_csv,
                   round_num, recommended_history, shown, displayed>>

\* the subject codes a caller may ask about: those of the catalog and one
\* that no catalog holds
AskedCodes == {subjects_df[i].subject_code : i \in DOMAIN subjects_df} \cup {AbsentCode}

\* a call of calculate_burnout with max_values=None and weights=None
CalculateBurnout ==
    \E subject_code \in AskedCodes :
        /\ Fresh
        /\ student_csv.exists
        /\ pc' = "done"
        /\ op' = [name |-> "calculate_burnout", subject_code |-> subject_code]
        /\ result' = calculate_burnout(scores_student_data(student_csv), subject_code,
                                       subjects_df, requirements_of(subjects_df),
                                       precalculate_max_values(subjects_df),
                                       DefaultWeights)
        /\ UNCHANGED <<subjects_df, prereqs_df, student_csv, burnout_csv, schedule_csv,
                       round_num, recommended_history, shown, displayed>>

\* the semester of the student_data handed to calculate_utility, which does
\* not read it
AnySemester == CHOOSE semester \in Semesters : TRUE

\* a call of calculate_utility with utility_weights=None
CalculateUtility ==
    \E subject_code \in AskedCodes :
        /\ Fresh
        /\ student_csv.exists
        /\ pc' = "done"
        /\ op' = [name |-> "calculate_utility", subject_code |-> subject_code]
        /\ result' = calculate_utility(get_student_data(student_csv, AnySemester),
                                       subject_code, subjects_df, prereqs_df,
                                       DefaultUtilityWeights)
        /\ UNCHANGED <<subjects_df, prereqs_df, student_csv, burnout_csv, schedule_csv,
                       round_num, recommended_history, shown, displayed>>

\* Display for a loop that goes on whatever a round displays
display_and_go_on(new_recommended, new_competitive, number) ==
    /\ round_num' = number
    /\ recommended_history' =
           recommended_history \cup codes_of(new_recommended \o new_competitive)
    /\ shown' = shown \o code_list(new_recommended \o new_competitive)
    /\ displayed' = [recommended |-> new_recommended, competitive |-> new_competitive]
    /\ pc' = "asking"

\* the history, the display and the loop condition after a round that found
\* these new courses                            ui_recommender.py:195-199, 223-229
Display(new_recommended, new_competitive, number) ==
    /\ round_num' = number
    /\ recommended_history' =
           recommended_history \cup codes_of(new_recommended \o new_competitive)
    /\ shown' = shown \o code_list(new_recommended \o new_competitive)
    /\ displayed' = [recommended |-> new_recommended, competitive |-> new_competitive]
    /\ pc' = IF Len(new_recommended) + Len(new_competitive) > 0 THEN "asking"
             ELSE "saving"

\* One round of recommend_schedule: the lists are cut down to the courses
\* not shown before, these are added to the history and displayed; the loop
\* goes on while a round displays something.    ui_recommender.py:189-199, 217-230
Round(lists, number) ==
    Display(new_courses(lists.recommended, recommended_history),
            new_courses(lists.competitive, recommended_history), number)

\* what a round does with the lists generate_recommendations returned
Shown(lists, number) ==
    /\ result' = lists
    /\ IF lists.kind = "None"
       THEN /\ pc' = "ended"
            /\ UNCHANGED <<round_num, recommended_history, shown, displayed>>
       ELSE Round(lists, number)

\* recommend_schedule up to the first display       ui_recommender.py:173-199
StartSession ==
    \E semester \in Semesters :
        /\ Fresh
        /\ op' = [name |-> "recommend_schedule", semester |-> semester,
                  additional_interests |-> <<>>, supplied |-> <<>>]
        /\ Shown(generate_recommendations(subjects_df, prereqs_df, burnout_csv,
                                          student_csv, semester, <<>>), 1)
        /\ UNCHANGED <<subjects_df, prereqs_df, student_csv, burnout_csv,
                       schedule_csv>>

\* the user answers 'yes' and picks additional interests; op records the
\* interests of this round and, in supplied, those of all rounds so far
\*                                                  ui_recommender.py:203-230
MoreRecommendations ==
    \E additional_interests \in AdditionalInterests :
        /\ pc = "asking"
        /\ op' = [op EXCEPT !.additional_interests = additional_interests,
                            !.supplied = @ \o additional_interests]
        /\ Shown(generate_recommendations(subjects_df, prereqs_df, burnout_csv,
                                          student_csv, op.semester,
                                          additional_interests), round_num + 1)
        /\ UNCHANGED <<subjects_df, prereqs_df, student_csv, burnout_csv,
                       schedule_csv>>

\* the user answers anything but 'yes'              ui_recommender.py:204-205
StopAsking ==
    /\ pc = "asking"
    /\ pc' = "saving"
    /\ UNCHANGED <<subjects_df, prereqs_df, student_csv, burnout_csv, schedule_csv, op,
                   result, round_num, recommended_history, shown, displayed>>

\* the schedule is saved from the history set       ui_recommender.py:232-241
SaveSchedule ==
    \E order \in Iterations(recommended_history) :
        /\ pc = "saving"
        /\ pc' = "ended"
        /\ schedule_csv' =
               [exists |-> TRUE,
                schedule |-> save_schedule(order, subjects_df,
                                           load_burnout_scores(burnout_csv))]
        /\ UNCHANGED <<subjects_df, prereqs_df, student_csv, burnout_csv, op, result,
                       round_num, recommended_history, shown, displayed>>

\* the operations behind the HTTP layer and the library calls
Next ==
    \/ GenerateRecommendations
    \/ CalculateScores
    \/ CalculateBurnout
    \/ CalculateUtility

Spec == Init /\ [][Next]_vars

\* the interactive session, for the students whose file lists its codes
\* without blanks
InitSession ==
    /\ Init
    /\ student_csv.exists =>
          /\ student_csv.completed_courses \in { <<>>, <<"cs5100">> }
          /\ student_csv.core_subjects \in { <<>>, <<"CS5200">> }

NextSession ==
    \/ StartSession
    \/ MoreRecommendations
    \/ StopAsking
    \/ SaveSchedule

SpecSession == InitSession /\ [][NextSession]_vars

\* the sessions without prerequisite table and score file
InitSessionLive ==
    /\ InitSession
    /\ prereqs_df = <<>>
    /\ burnout_csv = MissingFile

\* the statement that follows the loop is executed: it waits for no input
SpecSessionLive == InitSessionLive /\ [][NextSession]_vars /\ WF_vars(SaveSchedule)

(***************************************************************************)
(* The library functions called on their own.                              *)
(***************************************************************************)
\* prerequisite tables handed to a function; the last one gives CS5200 two
\* prerequisites
CallPrereqTables ==
    PrereqTables \cup
    { <<[subject_code |-> "CS5200", prereq_subject_code |-> "CS5100"],
        [subject_code |-> "CS5200", prereq_subject_code |-> "CS5800"]>> }

\* the students of these calls
CallStudents ==
    { [exists |-> TRUE, completed_courses |-> cc, core_subjects |-> <<>>,
       desired_outcomes |-> d,
       programming_experience |-> ("Python" :> 2),
       math_experience |-> ("Statistics" :> 4),
       completed_courses_details |->
           [t \in {cc[i] : i \in DOMAIN cc} |-> RecordedGrades]] :
         cc \in { <<>>, <<"cs5100">> },
         d \in { <<>>, <<"SQL", " Python">>, <<" ">> } }

\* seats and enrollments of a course
CallSeats ==
    { <<0, 0>>, <<0, 10>>, <<100, 10>>, <<100, 40>>, <<100, 95>>, <<100, 100>>,
      <<100, 120>> }

CallSemesters == {1, 3, 4, 8}

\* catalogs in which a subject has some of its numeric cells filled in: the
\* average project grade and the average exam grade of CS5100 are missing
PartialCatalogs ==
    { <<[c[1] EXCEPT !.avg_project_grade = NaN, !.avg_exam_grade = NaN]>>
          \o SubSeq(c, 2, Len(c)) :
        c \in {d \in Catalogs : d # <<>> /\ d[1].hours_per_week # NaN
                                 /\ d[1].Seats = NaN} }

CallCatalogs == Catalogs \cup PartialCatalogs

InitCalls ==
    /\ subjects_df \in CallCatalogs
    /\ prereqs_df \in CallPrereqTables
    /\ student_csv \in CallStudents
    /\ burnout_csv = MissingFile
    /\ schedule_csv = MissingFile
    /\ op = [name |-> "none"]
    /\ result = [kind |-> "none"]
    /\ pc = "idle"
    /\ round_num = 0
    /\ recommended_history = {}
    /\ shown = <<>>
    /\ displayed = [recommended |-> <<>>, competitive |-> <<>>]

\* a function called from a fresh state returns; the tables and files stay
\* as they are
Called(call, returned) ==
    /\ pc' = "called"
    /\ op' = call
    /\ result' = returned
    /\ UNCHANGED <<subjects_df, prereqs_df, student_csv, burnout_csv, schedule_csv,
                   round_num, recommended_history, shown, displayed>>

\* a call of precalculate_max_values(subjects_df)
PrecalculateMaxValues ==
    /\ pc = "idle"
    /\ Called([name |-> "precalculate_max_values"],
              [kind |-> "dict", max_values |-> precalculate_max_values(subjects_df)])

\* a call of calculate_enrollment_likelihood
EnrollmentLikelihood ==
    \E semester \in CallSemesters, is_core \in BOOLEAN, seats \in CallSeats :
        /\ pc = "idle"
        /\ Called([name |-> "calculate_enrollment_likelihood", semester |-> semester,
                   is_core |-> is_core, seats |-> seats[1], enrollments |-> seats[2]],
                  Float(calculate_enrollment_likelihood(semester, is_core, seats[1],
                                                        seats[2])))

\* a call of calculate_prerequisite_mismatch_factor with the requirements
\* table of load_subject_data
MismatchFactor ==
    \E subject_code \in AskedCodes :
        /\ pc = "idle"
        /\ Called([name |-> "calculate_prerequisite_mismatch_factor",
                   subject_code |-> subject_code],
                  calculate_prerequisite_mismatch_factor(
                      scores_student_data(student_csv), subject_code,
                      requirements_of(subjects_df)))

\* workload_factor called with the maxima of the catalog
WorkloadFactor ==
    \E subject_code \in AskedCodes :
        /\ pc = "idle"
        /\ Called([name |-> "workload_factor", subject_code |-> subject_code],
                  workload_factor(subject_code, subjects_df,
                                  precalculate_max_values(subjects_df)))

\* calculate_stress_factor called for the student of the student file
StressFactor ==
    \E subject_code \in AskedCodes :
        /\ pc = "idle"
        /\ Called([name |-> "calculate_stress_factor", subject_code |-> subject_code],
                  calculate_stress_factor(scores_student_data(student_csv), subject_code,
                                          subjects_df))

\* the two shapes of student_data: that of get_student_data and that of
\* calculate_scores
StudentShapes ==
    {get_student_data(student_csv, AnySemester), scores_student_data(student_csv)}

\* a call of calculate_outcome_alignment_score with the outcomes table of
\* load_subject_data
OutcomeAlignment ==
    \E subject_code \in AskedCodes, student_data \in StudentShapes :
        /\ pc = "idle"
        /\ Called([name |-> "calculate_outcome_alignment_score",
                   subject_code |-> subject_code, student_data |-> student_data],
                  calculate_outcome_alignment_score(student_data, subject_code,
                                                    outcomes_of(subjects_df)))

\* calculate_burnout or calculate_utility is called a second time with the
\* arguments of the call before
Recompute ==
    /\ pc = "done"
    /\ op.name \in {"calculate_burnout", "calculate_utility"}
    /\ pc' = "recomputed"
    /\ op' = op
    /\ result' =
           IF op.name = "calculate_burnout"
           THEN calculate_burnout(scores_student_data(student_csv), op.subject_code,
                                  subjects_df, requirements_of(subjects_df),
                                  precalculate_max_values(subjects_df), DefaultWeights)
           ELSE calculate_utility(get_student_data(student_csv, AnySemester),
                                  op.subject_code, subjects_df, prereqs_df,
                                  DefaultUtilityWeights)
    /\ UNCHANGED <<subjects_df, prereqs_df, student_csv, burnout_csv, schedule_csv,
                   round_num, recommended_history, shown, displayed>>

NextCalls ==
    \/ PrecalculateMaxValues
    \/ EnrollmentLikelihood
    \/ MismatchFactor
    \/ OutcomeAlignment
    \/ WorkloadFactor
    \/ StressFactor
    \/ CalculateBurnout
    \/ CalculateUtility
    \/ Recompute

SpecCalls == InitCalls /\ [][NextCalls]_vars

(***************************************************************************)
(* Long sessions: catalogs with more subjects than a round displays.       *)
(***************************************************************************)
\* the subject codes of the rows of a long catalog, in row order
SessionCodes ==
    <<"CS5100", "CS5200", "CS5800", "CS6140", "CS7000", "CS7150", "CS7200", "CS7280">>

\* the name and outcome cells of the rows of a long catalog; every row has
\* free seats
SessionCells ==
    { <<"Database Management Systems", "SQL, Data Visualization">>,
      <<"Algorithms", "Python, Algorithms, Machine Learning">> }

SessionCatalogs ==
    UNION { { [i \in 1..n |->
                 [subject_code |-> SessionCodes[i],
                  name |-> c[i][1],
                  course_outcomes |-> c[i][2],
                  Seats |-> 100,
                  Enrollments |-> 40] @@ OtherCells(c[i][1])]
              : c \in [1..n -> SessionCells] }
            : n \in 0..SessionSubjects }

\* a session of a student interested in data who has completed nothing,
\* without prerequisite table and score file
InitRounds ==
    /\ subjects_df \in SessionCatalogs
    /\ prereqs_df = <<>>
    /\ student_csv \in {f \in StudentFiles : /\ f.completed_courses = <<>>
                                             /\ f.core_subjects \in {<<>>, <<"CS5200">>}
                                             /\ f.desired_outcomes = <<" Data">>}
    /\ burnout_csv = MissingFile
    /\ schedule_csv = MissingFile
    /\ op = [name |-> "none"]
    /\ result = [kind |-> "none"]
    /\ pc = "idle"
    /\ round_num = 0
    /\ recommended_history = {}
    /\ shown = <<>>
    /\ displayed = [recommended |-> <<>>, competitive |-> <<>>]

\* the rounds of the session, up to the point where the schedule is saved
NextRounds ==
    \/ StartSession
    \/ MoreRecommendations
    \/ StopAsking

SpecRounds == InitRounds /\ [][NextRounds]_vars

(***************************************************************************)
(* recommendation_api.py: the HTTP layer.  A request body is a JSON object. *)
(***************************************************************************)
\* the engine was not invoked
NotCalled == [kind |-> "not called"]

\* jsonify({...}), status: the response, beside it what the engine call gave
response(status, error, engine) ==
    [kind |-> "response", status |-> status, error |-> error, engine |-> engine]

\* answer that takes the None of the engine for a result
answer_ignoring_none(engine, failed) ==
    IF engine.kind = "raise" THEN response(500, engine.exception, engine)
    ELSE response(200, "", engine)

\* the try block of both routes: an exception and a None of the engine are
\* answered with 500         recommendation_api.py:19-34, 51-69
answer(engine, failed) ==
    IF engine.kind = "raise" THEN response(500, engine.exception, engine)
    ELSE IF engine.kind = "None" THEN response(500, failed, engine)
    ELSE response(200, "", engine)

\* get_burnout_scores(): POST /api/burnout-scores
get_burnout_scores(data, subjects, prereqs, student_file) ==
    IF "nuid" \notin DOMAIN data
    THEN response(400, "Missing required parameter: nuid", NotCalled)
    ELSE answer(calculate_scores(subjects, prereqs, student_file),
                "Failed to calculate burnout scores")

\* data.get('additional_interests', [])
additional_of(data) ==
    IF "additional_interests" \in DOMAIN data THEN data.additional_interests ELSE <<>>

\* get_recommendations(): POST /api/recommendations
get_recommendations(data, subjects, prereqs, scores_file, student_file) ==
    IF "nuid" \notin DOMAIN data
    THEN response(400, "Missing required parameter: nuid", NotCalled)
    ELSE IF "semester" \notin DOMAIN data
    THEN response(400, "Missing required parameter: semester", NotCalled)
    ELSE answer(generate_recommendations(subjects, prereqs, scores_file, student_file,
                                         data.semester, additional_of(data)),
                "Failed to generate recommendations")

\* the request bodies of POST /api/burnout-scores
ScoreRequests == { <<>>, [nuid |-> "0"] }

\* the request bodies of POST /api/recommendations
RecommendationRequests ==
    { <<>>, [nuid |-> "0"], [semester |-> 4] }
    \cup { [nuid |-> "0", semester |-> semester] : semester \in Semesters }
    \cup { [nuid |-> "0", semester |-> 4, additional_interests |-> <<"algorithms">>] }

\* a request to POST /api/burnout-scores is answered; the score file is
\* written when calculate_scores gets that far
PostBurnoutScores ==
    \E data \in ScoreRequests :
        /\ pc = "idle"
        /\ pc' = "answered"
        /\ op' = [name |-> "POST /api/burnout-scores", data |-> data]
        /\ result' = get_burnout_scores(data, subjects_df, prereqs_df, student_csv)
        /\ burnout_csv' = IF result'.engine.kind = "DataFrame"
                          THEN [exists |-> TRUE, rows |-> result'.engine.rows]
                          ELSE burnout_csv
        /\ UNCHANGED <<subjects_df, prereqs_df, student_csv, schedule_csv,
                       round_num, recommended_history, shown, displayed>>

\* a request to POST /api/recommendations is answered
PostRecommendations ==
    \E data \in RecommendationRequests :
        /\ pc = "idle"
        /\ pc' = "answered"
        /\ op' = [name |-> "POST /api/recommendations", data |-> data]
        /\ result' = get_recommendations(data, subjects_df, prereqs_df, burnout_csv,
                                         student_csv)
        /\ UNCHANGED <<subjects_df, prereqs_df, student_csv, burnout_csv, schedule_csv,
                       round_num, recommended_history, shown, displayed>>

NextHttp ==
    \/ PostBurnoutScores
    \/ PostRecommendations

SpecHttp == InitSession /\ [][NextHttp]_vars

(***************************************************************************)
(* Properties.                                                             *)
(***************************************************************************)
\* the last operation was generate_recommendations and it returned two lists
RecReturned == op.name = "generate_recommendations" /\ result.kind = "lists"

\* the student_data that call handed to find_matching_courses
RecStudent ==
    LET sd == get_student_data(student_csv, op.semester)
    IN  [sd EXCEPT !.interests = @ \o op.additional_interests]

\* the match score of a course after the interest, prerequisite and utility
\* adjustments, before the core boost
adjusted_score(course) ==
    LET m == match_course(course, RecStudent, student_interests(RecStudent.interests),
                          prereqs_df, load_burnout_scores(burnout_csv))
    IN  m.entry.match_score - (IF m.entry.is_core THEN CoreBoost ELSE 0)

core_course(course) == course.subject_code \in Range(RecStudent.core_subjects)

\* C5: a course the student has not completed is in the list of
\* find_matching_courses iff it is a core subject or its adjusted match score
\* is strictly greater than 0.3.
C5_IncludedIffCoreOrAboveFloor ==
    RecReturned =>
        \A i \in DOMAIN subjects_df :
            subjects_df[i].subject_code \notin RecStudent.completed_courses =>
                ( subjects_df[i].subject_code \in codes_of(result.matching_courses)
                  <=> ( core_course(subjects_df[i])
                        \/ adjusted_score(subjects_df[i]) > MatchFloor ) )

\* C5 witness: a core course with match score 0.0 is included, while a
\* non-core course whose score is exactly 0.3 is left out.
C5_Witness ==
    /\ RecReturned
    /\ \E i \in DOMAIN subjects_df :
          /\ core_course(subjects_df[i])
          /\ adjusted_score(subjects_df[i]) = 0
          /\ subjects_df[i].subject_code \in codes_of(result.matching_courses)
    /\ \E i \in DOMAIN subjects_df :
          /\ ~core_course(subjects_df[i])
          /\ subjects_df[i].subject_code \notin RecStudent.completed_courses
          /\ adjusted_score(subjects_df[i]) = MatchFloor
          /\ subjects_df[i].subject_code \notin codes_of(result.matching_courses)

\* C6: in the list of find_matching_courses every core course precedes every
\* non-core course, and among courses of equal is_core the composite
\* 0.5*match_score + 0.3*utility_score + 0.2*likelihood does not increase.
C6_CoreFirstThenComposite ==
    RecReturned =>
        LET m == result.matching_courses
        IN  \A i, j \in DOMAIN m :
                i < j =>
                    /\ ~(~m[i].is_core /\ m[j].is_core)
                    /\ (m[i].is_core = m[j].is_core => composite(m[i]) >= composite(m[j]))

\* C6 witness: a core course of match score 0.0 (0.5 after the boost) stands
\* before a non-core course whose match score and composite are higher.
C6_Witness ==
    /\ RecReturned
    /\ \E i, j \in DOMAIN result.matching_courses :
          LET m == result.matching_courses
          IN  /\ i < j
              /\ m[i].is_core /\ m[i].match_score = CoreBoost
              /\ ~m[j].is_core /\ m[j].match_score > m[i].match_score
              /\ composite(m[j]) > composite(m[i])

\* the position of a code in a list without duplicate codes
position(list, code) == CHOOSE i \in DOMAIN list : list[i].subject_code = code

occurrences(list, code) == Cardinality({i \in DOMAIN list : list[i].subject_code = code})

\* the entries of `part` are entries of `whole`, in the order of `whole`
in_order_of(part, whole) ==
    /\ \A i \in DOMAIN part : \E k \in DOMAIN whole : whole[k] = part[i]
    /\ \A i, j \in DOMAIN part :
          i < j => position(whole, part[i].subject_code)
                     < position(whole, part[j].subject_code)

\* C7: every included course is in exactly one of the two lists exactly once,
\* it is in the highly competitive list iff its likelihood is below 0.3, and
\* each list keeps the order of the sorted list.
C7_PartitionByLikelihood ==
    RecReturned =>
        LET m == result.matching_courses
        IN  /\ \A k \in DOMAIN m :
                  /\ occurrences(result.recommended, m[k].subject_code)
                       + occurrences(result.competitive, m[k].subject_code) = 1
                  /\ m[k].subject_code \in codes_of(result.competitive)
                       <=> m[k].likelihood < CompetitiveBelow
            /\ in_order_of(result.recommended, m)
            /\ in_order_of(result.competitive, m)

\* C7 witness: both lists are filled, and the sorted list starts with a
\* course that goes to the highly competitive list.
C7_Witness ==
    /\ RecReturned
    /\ result.recommended # <<>>
    /\ result.competitive # <<>>
    /\ result.matching_courses[1].likelihood < CompetitiveBelow

\* the last operation was calculate_scores and it returned its table
ScoresReturned == op.name = "calculate_scores" /\ result.kind = "DataFrame"

\* the completed courses as calculate_scores reads them from the student file
ScoresCompleted == DOMAIN scores_student_data(student_csv).completed_courses

\* not_completed as find_matching_courses applied it in the last call
RecSkipped == not_completed(subjects_df, RecStudent.completed_courses)

AskedPresent(name) ==
    /\ op.name = name
    /\ op.subject_code \in codes_of(subjects_df)

\* C2: for a subject code of the catalog calculate_burnout returns a value
\* in the closed interval [0, 1].
C2_BurnoutInUnitInterval ==
    AskedPresent("calculate_burnout") =>
        /\ result.kind = "float"
        /\ 0 <= result.value
        /\ result.value <= One

\* the codes of the catalog subjects the student has not completed
ToScore == codes_of(subjects_df) \ ScoresCompleted

\* C3: calculate_scores returns exactly one entry for every catalog subject
\* the student has not completed, whatever cells of a subject are missing.
C3_OneEntryPerOpenSubject ==
    (op.name = "calculate_scores" /\ student_csv.exists) =>
        /\ result.kind = "DataFrame"
        /\ codes_of(result.rows) = ToScore
        /\ Len(result.rows) = Cardinality(ToScore)

\* C4: calculate_scores returns a sequence sorted ascending by burnout_score.
C4_SortedByBurnout ==
    (op.name = "calculate_scores" /\ student_csv.exists) =>
        /\ result.kind = "DataFrame"
        /\ \A i \in 1..(Len(result.rows) - 1) :
              result.rows[i].burnout_score <= result.rows[i + 1].burnout_score

\* the number of entries the schedule of a history of n codes is to have
ScheduleLen == Min(Len(shown), ScheduleSize)

\* C8: the schedule saved from a history of n codes has min(n, 5) entries
\* keyed "Subject 1" .. "Subject min(n, 5)", and entry i describes the i-th
\* code of the history in the order the codes were added.
C8_ScheduleInInsertionOrder ==
    schedule_csv.exists =>
        /\ DOMAIN schedule_csv.schedule = {SubjectKey(i) : i \in 1..ScheduleLen}
        /\ \A i \in 1..ScheduleLen :
              schedule_csv.schedule[SubjectKey(i)].subject_code = shown[i]

\* the utility calculate_utility computes for the student of the last call
\* of generate_recommendations and a subject
computed_utility(subject_code) ==
    calculate_utility(RecStudent, subject_code, subjects_df, prereqs_df,
                      DefaultUtilityWeights)

\* C9: the utility find_matching_courses reads from the score table for a
\* subject is the utility calculate_utility computes for that student and
\* subject.
C9_TableUtilityIsComputedUtility ==
    RecReturned =>
        \A i \in DOMAIN result.matching_courses :
            result.matching_courses[i].utility_score # NoScore =>
                /\ computed_utility(result.matching_courses[i].subject_code).kind = "float"
                /\ computed_utility(result.matching_courses[i].subject_code).value
                       = result.matching_courses[i].utility_score

\* C10: calculate_burnout and calculate_utility signal an error, and return
\* no score, exactly when the subject code is absent from the catalog.
C10_ErrorIffAbsent ==
    op.name \in {"calculate_burnout", "calculate_utility"} =>
        ( result.kind = "raise" <=> op.subject_code \notin codes_of(subjects_df) )

\* C11: each of the four values of precalculate_max_values is a number that
\* is at least 1, whatever the catalog holds.
C11_MaximaAtLeastOne ==
    op.name = "precalculate_max_values" =>
        /\ notna(result.max_values.Hmax) /\ result.max_values.Hmax >= 1
        /\ notna(result.max_values.Amax) /\ result.max_values.Amax >= One
        /\ notna(result.max_values.Pmax) /\ result.max_values.Pmax >= One
        /\ notna(result.max_values.Emax) /\ result.max_values.Emax >= One

\* the likelihood the formula gives for the arguments of the last call:
\* base is the free share of the seats when it is positive and 0.1 otherwise
expected_likelihood ==
    LET base == IF op.seats > 0 /\ op.seats > op.enrollments
                THEN ((op.seats - op.enrollments) * One) \div op.seats
                ELSE FullLikelihood
        semester_share == IF op.semester >= 4 THEN One ELSE 250 * op.semester
        halves == IF op.is_core THEN 3 ELSE 2
    IN  Min((base * semester_share * halves) \div (2 * One), One)

\* the arguments seats=100, enrollments=95, semester=4, not core
FewSeatsLeft ==
    /\ op.seats = 100 /\ op.enrollments = 95
    /\ op.semester = 4 /\ ~op.is_core

\* C12: calculate_enrollment_likelihood returns
\* min(base * min(semester/4, 1) * (1.5 if core else 1), 1), a value in
\* [0, 1]; for seats=100, enrollments=95, semester=4, not core it is 0.05,
\* which the split sends to the highly competitive list.
C12_LikelihoodFormula ==
    op.name = "calculate_enrollment_likelihood" =>
        /\ result.value = expected_likelihood
        /\ 0 <= result.value /\ result.value <= One
        /\ FewSeatsLeft =>
              /\ result.value = 50
              /\ is_competitive([likelihood |-> result.value])

\* C12 witness: the call with few seats left has returned, as has a call
\* that the cap of 1.0 cuts
C12_Witness ==
    /\ op.name = "calculate_enrollment_likelihood"
    /\ \/ FewSeatsLeft /\ result.value = 50
       \/ op.is_core /\ op.seats = 100 /\ op.enrollments = 10 /\ result.value = One

\* the prerequisites the table lists for a subject
prerequisites_of(subject_code) ==
    {prereqs_df[i].prereq_subject_code :
        i \in {j \in DOMAIN prereqs_df : prereqs_df[j].subject_code = subject_code}}

\* the penalty the claim gives: 1 when the subject has a prerequisite that
\* is not in the completed set, else 0
expected_penalty(subject_code, completed) ==
    IF prerequisites_of(subject_code) \ completed # {} THEN 1 ELSE 0

\* the terms of the utility other than the penalty
utility_before_penalty(student_data, subject_code) ==
    (DefaultUtilityWeights.alpha
        * calculate_outcome_alignment_score(student_data, subject_code,
                                            outcomes_of(subjects_df)).value
     + DefaultUtilityWeights.beta
        * (One - calculate_burnout(standardize_for_burnout(student_data), subject_code,
                                   subjects_df, requirements_of(subjects_df),
                                   precalculate_max_values(subjects_df),
                                   DefaultWeights).value)) \div One

\* the student_data of the calls of calculate_utility
UtilityStudent == get_student_data(student_csv, AnySemester)

\* C13: the utility calculate_utility returns for a subject carries the
\* prerequisite penalty 1 when the subject has a prerequisite the student
\* has not completed and 0 otherwise, never a partial value.
C13_FullPenaltyOrNone ==
    AskedPresent("calculate_utility") =>
        /\ result.kind = "float"
        /\ result.value =
               utility_before_penalty(UtilityStudent, op.subject_code)
               - DefaultUtilityWeights.delta
                   * expected_penalty(op.subject_code, UtilityStudent.completed_courses)

\* the catalog rows of the subject of the last call
AskedRows == rows_of(subjects_df, op.subject_code)

\* the mismatch of one requirement: 1 when the skill is not in the map, else
\* 1 - clamp(proficiency / 3, 0, 1)
expected_mismatch(skill, experience) ==
    IF skill \notin DOMAIN experience THEN One
    ELSE One - Min(Max((experience[skill] * One) \div FullProficiency, 0), One)

\* the mismatches of the requirements of the subject of the last call
expected_mismatches ==
    IF AskedRows = <<>> THEN <<>>
    ELSE [k \in DOMAIN AskedRows[1].programming_needed |->
             expected_mismatch(AskedRows[1].programming_needed[k],
                               student_csv.programming_experience)]
         \o
         [k \in DOMAIN AskedRows[1].math_needed |->
             expected_mismatch(AskedRows[1].math_needed[k],
                               student_csv.math_experience)]

\* C14: calculate_prerequisite_mismatch_factor returns exactly 0 for a
\* subject with no requirements and otherwise the average of the mismatches
\* of its requirements, a value in [0, 1].
C14_MismatchIsAverage ==
    AskedPresent("calculate_prerequisite_mismatch_factor") =>
        /\ result.kind = "float"
        /\ result.value = IF expected_mismatches = <<>> THEN 0
                          ELSE SeqSum(expected_mismatches) \div Len(expected_mismatches)
        /\ 0 <= result.value /\ result.value <= One

\* the desired-outcome set of the student of the last call
DesiredSet ==
    {StripLabel(op.student_data.desired_outcomes[i]) :
        i \in DOMAIN op.student_data.desired_outcomes}

\* the outcome set of the subject of the last call
SubjectOutcomeSet ==
    IF AskedRows = <<>> THEN {}
    ELSE Range(OutcomeLabels[AskedRows[1].course_outcomes])

\* C15: the outcome alignment is |A \cap B| / |A \cup B| for the desired
\* outcomes A and the subject outcomes B, exactly 0 and no fault when either
\* is empty, and the same with A and B exchanged.
C15_JaccardOfOutcomes ==
    AskedPresent("calculate_outcome_alignment_score") =>
        /\ result.kind = "float"
        /\ result.value =
               IF DesiredSet = {} \/ SubjectOutcomeSet = {} THEN 0
               ELSE (Cardinality(DesiredSet \cap SubjectOutcomeSet) * One)
                        \div Cardinality(DesiredSet \cup SubjectOutcomeSet)
        /\ jaccard_similarity(DesiredSet, SubjectOutcomeSet)
               = jaccard_similarity(SubjectOutcomeSet, DesiredSet)

\* a step that calls calculate_burnout or calculate_utility
ScoreCall == op'.name \in {"calculate_burnout", "calculate_utility"}

ZeroTable ==
    [kind |-> "DataFrame",
     rows |-> [i \in DOMAIN subjects_df |->
                  [subject_code |-> subjects_df[i].subject_code,
                   burnout_score |-> 500, utility |-> 0]]]

\* find_matching_courses for the student of the last call and that table
WithZeroTable == find_matching_courses(RecStudent, subjects_df, prereqs_df, ZeroTable)

\* the last call of generate_recommendations found no score table
RecWithoutTable == RecReturned /\ ~burnout_csv.exists

\* C17: without a score table find_matching_courses still returns a list,
\* with the subjects, match scores and order it returns for a table in
\* which every utility is 0.
C17_NoTableIsZeroUtility ==
    RecWithoutTable =>
        /\ code_list(result.matching_courses) = code_list(WithZeroTable)
        /\ \A i \in DOMAIN result.matching_courses :
              result.matching_courses[i].match_score = WithZeroTable[i].match_score

\* C17 witness: two courses are returned without a table, with no utility
\* recorded, and the table of zeros records utility 0 for them.
C17_Witness ==
    /\ RecWithoutTable
    /\ Len(result.matching_courses) >= 2
    /\ result.matching_courses[1].utility_score = NoScore
    /\ WithZeroTable[1].utility_score = 0
    /\ result.matching_courses[1].match_score > result.matching_courses[2].match_score

\* the last operation was a request to the HTTP layer
Answered == pc = "answered"

\* the body of the last request lacks a field its route requires
MissingField ==
    \/ "nuid" \notin DOMAIN op.data
    \/ op.name = "POST /api/recommendations" /\ "semester" \notin DOMAIN op.data

\* C18: a request that lacks a required field is answered 400 and the
\* engine is not invoked; an engine call that raises or returns None is
\* answered 500 with a description; 200 is answered only when the engine
\* call completed.
C18_StatusOfResponse ==
    Answered =>
        /\ MissingField => result.status = 400 /\ result.engine = NotCalled
        /\ ~MissingField => result.engine # NotCalled
        /\ result.engine.kind \in {"raise", "None"} =>
              result.status = 500 /\ result.error # ""
        /\ result.status = 200 => result.engine.kind \in {"lists", "DataFrame"}

\* C18 witness: a student for whom no recommendations can be generated is
\* answered 500.
C18_Witness ==
    /\ Answered
    /\ op.name = "POST /api/recommendations"
    /\ result.engine.kind = "None"
    /\ result.status = 500

\* the catalog row of an entry of the list
course_of(entry) ==
    subjects_df[CHOOSE i \in DOMAIN subjects_df :
                    subjects_df[i].subject_code = entry.subject_code]

\* the score interest matching gives a course for the student of the call
matched_score(course) ==
    interest_match(student_interests(RecStudent.interests), course.name,
                   outcomes_text(course)).score

\* the student of the call has completed the prerequisites of the course
prereq_met(course) ==
    prerequisites_satisfied(course.subject_code, RecStudent.completed_courses, prereqs_df)

\* the utility the score table records for a course, <<>> when there is none
recorded_utility(course) ==
    LET rows == burnout_rows(load_burnout_scores(burnout_csv), course.subject_code)
    IN  IF rows = <<>> THEN <<>> ELSE <<rows[1].utility>>

\* s after step 4 and step 5 in this order, then the boost of a core course
score_in_order(s, met, u, core) ==
    LET halved == IF met THEN s ELSE s \div 2
        blended == IF u = <<>> THEN halved
                   ELSE IF u[1] > 0 THEN halved + u[1] \div 2
                   ELSE IF u[1] < 0 THEN (halved * (One + u[1])) \div One
                   ELSE halved
    IN  blended + (IF core THEN CoreBoost ELSE 0)

\* C19: the match score of every listed course is the interest-matching
\* score s, halved first when prerequisites are unsatisfied, then adjusted by
\* the utility u (s + 0.5*u for u > 0, s*(1+u) for u < 0, unchanged for
\* u = 0 or no u), and last raised by 0.5 when the course is a core subject.
C19_AdjustmentsInOrder ==
    RecReturned =>
        \A i \in DOMAIN result.matching_courses :
            result.matching_courses[i].match_score =
                score_in_order(matched_score(course_of(result.matching_courses[i])),
                               prereq_met(course_of(result.matching_courses[i])),
                               recorded_utility(course_of(result.matching_courses[i])),
                               core_course(course_of(result.matching_courses[i])))

\* C19 witness: a listed core course with a positive interest score,
\* unsatisfied prerequisites and a positive utility, for which halving
\* before and after the utility is added give different scores.
C19_Witness ==
    /\ RecReturned
    /\ \E i \in DOMAIN result.matching_courses :
          LET course == course_of(result.matching_courses[i])
          IN  /\ matched_score(course) > 0
              /\ ~prereq_met(course)
              /\ recorded_utility(course) # <<>>
              /\ recorded_utility(course)[1] > 0
              /\ core_course(course)
              /\ result.matching_courses[i].match_score
                    = matched_score(course) \div 2 + recorded_utility(course)[1] \div 2
                      + CoreBoost

\* C20: every entry of the lists generate_recommendations returns has
\* match_score >= 0, whatever utility the score table records.
C20_MatchScoreNonNegative ==
    RecReturned =>
        \A i \in DOMAIN (result.recommended \o result.competitive) :
            (result.recommended \o result.competitive)[i].match_score >= 0

\* a value is a number in [0, bound]
within(value, bound) == value # NaN /\ bound # NaN /\ 0 <= value /\ value <= bound

\* the quantities of a catalog row are within the maxima of the catalog
row_within_maxima(r) ==
    /\ within(workload_quantities(r).H, precalculate_max_values(subjects_df).Hmax)
    /\ within(workload_quantities(r).A, precalculate_max_values(subjects_df).Amax)
    /\ within(workload_quantities(r).P, precalculate_max_values(subjects_df).Pmax)
    /\ within(workload_quantities(r).E, precalculate_max_values(subjects_df).Emax)

\* C21: workload_factor derives H, A, P, E for a subject of the catalog, and
\* for every subject of the catalog each of them is between 0 and the
\* maximum precalculate_max_values builds for the catalog, so that each
\* ratio is in [0,1].
C21_QuantitiesWithinMaxima ==
    AskedPresent("workload_factor") =>
        /\ result.kind = "float"
        /\ \A i \in DOMAIN subjects_df : row_within_maxima(subjects_df[i])

\* the grade of a category: the student's own when the student completed
\* the subject and recorded it, else the default; clamped to [0,100]
chosen_grade(student_data, subject_code, category, default) ==
    LET done == subject_code \in DOMAIN student_data.completed_courses
        own == IF done /\ category \in DOMAIN student_data.completed_courses[subject_code]
               THEN student_data.completed_courses[subject_code][category]
               ELSE default
    IN  Max(0, Min(100, own))

\* the stress factor of a catalog row for a student: 0 when the weights sum
\* to 0, else the weighted mean of ((100 - grade)/100)^2, in thousandths
expected_stress(student_data, r) ==
    LET GA == chosen_grade(student_data, r.subject_code, "assignment",
                           or_default(r.avg_assignment_grade, DefaultGrade))
        GE == chosen_grade(student_data, r.subject_code, "exam",
                           or_default(r.avg_exam_grade, DefaultGrade))
        GP == chosen_grade(student_data, r.subject_code, "project",
                           or_default(r.avg_project_grade, DefaultGrade))
        Aw == or_zero(r.assignment_weight)
        Ew == or_zero(r.exam_weight)
        Pw == or_zero(r.project_weight)
    IN  IF Aw + Ew + Pw = 0 THEN 0
        ELSE ((((100 - GA) * (100 - GA) * Aw + (100 - GE) * (100 - GE) * Ew
                + (100 - GP) * (100 - GP) * Pw) \div 10000) * One)
             \div (Aw + Ew + Pw)

\* C22: for a subject of the catalog calculate_stress_factor does not fail:
\* it returns the stress of the grades chosen per category (the student's
\* own recorded grade, else the subject's average, else 70; clamped to
\* [0,100]), and 0 when the weights sum to 0.
C22_StressNeverFails ==
    AskedPresent("calculate_stress_factor") =>
        result = Float(expected_stress(scores_student_data(student_csv),
                                       get_subject(subjects_df, op.subject_code).row))

\* a round of a session of recommend_schedule has been scored
RoundScored == op.name = "recommend_schedule" /\ result.kind = "lists"

\* the lists of a round scored with the base interests and the additional
\* interests of every round so far
WithAllSupplied ==
    generate_recommendations(subjects_df, prereqs_df, burnout_csv, student_csv,
                             op.semester, op.supplied)

\* C23: every round of a session is scored with the student's base
\* interests plus the additional interests supplied in all rounds up to and
\* including it.
C23_InterestsAccumulate ==
    RoundScored =>
        /\ code_list(result.matching_courses) = code_list(WithAllSupplied.matching_courses)
        /\ \A i \in DOMAIN result.matching_courses :
              result.matching_courses[i].match_score
                  = WithAllSupplied.matching_courses[i].match_score

\* two entries have the same sort key
same_key(a, b) == a.is_core = b.is_core /\ composite(a) = composite(b)

\* entries of equal key stand in `list` in the order of their catalog rows
ties_in_catalog_order(list) ==
    \A i, j \in DOMAIN list :
        (i < j /\ same_key(list[i], list[j])) =>
            position(subjects_df, list[i].subject_code)
                < position(subjects_df, list[j].subject_code)

\* C24: in each list generate_recommendations returns, two subjects with
\* the same is_core and exactly equal composite stand in the order of their
\* rows in the catalog.
C24_TiesInCatalogOrder ==
    RecReturned =>
        /\ ties_in_catalog_order(result.matching_courses)
        /\ ties_in_catalog_order(result.recommended)
        /\ ties_in_catalog_order(result.competitive)

\* C24 witness: the recommended list holds two subjects of equal key, the
\* first row of the catalog before the second.
C24_Witness ==
    /\ RecReturned
    /\ Len(result.recommended) = 2
    /\ same_key(result.recommended[1], result.recommended[2])
    /\ result.recommended[1].subject_code = subjects_df[1].subject_code
    /\ result.recommended[2].subject_code = subjects_df[2].subject_code
    /\ result.recommended[1].match_score > 0

\* the codes the last round displayed
displayed_codes == codes_of(displayed.recommended \o displayed.competitive)

\* no code was added to `shown` twice
shown_once == \A i, j \in DOMAIN shown : i # j => shown[i] # shown[j]

\* C25: a round displays at most 5 recommended and at most 5 highly
\* competitive subjects, none of which was in the history before the round;
\* no code is displayed twice in a session; after every step the history
\* is the set of all codes displayed so far, and it never loses an element.
C25_NoSubjectShownTwice ==
    [][ /\ round_num' # round_num =>
              /\ Len(displayed'.recommended) <= RoundSize
              /\ Len(displayed'.competitive) <= RoundSize
              /\ displayed_codes' \cap recommended_history = {}
              /\ recommended_history' = recommended_history \cup displayed_codes'
        /\ shown_once'
        /\ recommended_history' = Range(shown')
        /\ recommended_history \subseteq recommended_history' ]_vars

\* C25 witness: the first round displayed 5 of 6 recommended subjects and
\* the second round the sixth.
C25_Witness ==
    /\ round_num = 2
    /\ Len(result.recommended) = 6
    /\ Len(displayed.recommended) = 1
    /\ Len(shown) = 6
    /\ shown[6] = displayed.recommended[1].subject_code

\* C26: whatever the user answers, a session has at most as many rounds as
\* the catalog has subjects, plus one; every pass through the loop that
\* stays in the loop is a new round, so the loop is left after at most that
\* many passes; and once the loop is left the schedule is saved.
C26_RoundsBoundedThenSaved ==
    /\ [](round_num <= Len(subjects_df) + 1)
    /\ [][(pc = "asking" /\ pc' = "asking") => round_num' = round_num + 1]_vars
    /\ (pc = "saving") ~> schedule_csv.exists

\* C26 witness: the user said yes after every round; each of the first two
\* rounds displayed one of the two subjects, the third nothing, and the
\* schedule was saved.
C26_Witness ==
    /\ Len(subjects_df) = 2
    /\ round_num = 3
    /\ Len(shown) = 2
    /\ schedule_csv.exists

\* calculate_scores was called for a student who has completed every
\* subject of the catalog
ScoredAllCompleted ==
    /\ op.name = "calculate_scores"
    /\ student_csv.exists
    /\ codes_of(subjects_df) \subseteq ScoresCompleted

\* generate_recommendations was called for a student who has completed
\* every subject of the catalog
RecAllCompleted ==
    /\ op.name = "generate_recommendations"
    /\ student_csv.exists
    /\ codes_of(subjects_df) \subseteq RecStudent.completed_courses

\* C27: for a student who has completed every subject of the catalog
\* calculate_scores returns an empty table and generate_recommendations
\* returns two empty lists, neither signalling an error.
C27_AllCompletedGivesEmpty ==
    /\ ScoredAllCompleted => (result.kind = "DataFrame" /\ result.rows = <<>>)
    /\ RecAllCompleted =>
          /\ result.kind = "lists"
          /\ result.recommended = <<>>
          /\ result.competitive = <<>>

\* the enrollments a course of the last call's seats may have
CallEnrollments == {seats[2] : seats \in CallSeats}

\* the likelihood of the last call's course with other enrollments
likelihood_with(enrollments) ==
    calculate_enrollment_likelihood(op.semester, op.is_core, op.seats, enrollments)

\* C28: for seats > 0 and a fixed semester and core flag, a course with
\* more enrollments is never given a higher likelihood.
C28_MonotoneInEnrollments ==
    (op.name = "calculate_enrollment_likelihood" /\ op.seats > 0) =>
        \A more \in CallEnrollments :
            more >= op.enrollments => likelihood_with(more) <= result.value

====
